---- MODULE Spec2Model ----
(***************************************************************************)
(* Model of the adversarial-attack toolkit (assignment3/part2) and of the  *)
(* evaluation helper of the MLP training script (assignment1).             *)
(*                                                                         *)
(* Numbers are fixed point: Unit stands for 1.0, so 2470 is 0.2470.        *)
(* Tensors are sequences of coordinates (one pixel per channel).           *)
(* Labels are 0 and 1; a logits vector is indexed by label + 1.            *)
(***************************************************************************)
EXTENDS Integers, Sequences, FiniteSets

VARIABLES
    pc,               \* position of the running call ("idle" between calls)
    W,                \* the classifier under attack: weights and bias
    paramGradN,       \* number of backward results summed in the parameters' .grad
    error,            \* the exception that ended the running call, or NoError
    \* ---- test_attack frame
    test_loader, attack_function, attack_args, idx, correct, adv_examples,
    data, target, dataGrad, init_pred, perturbed_data, final_acc,
    \* ---- pgd_attack frame
    pgdData, pgdTarget, pgdArgs, orig_data, adv_data, advGrad, iter, pgdRet,
    pgdResult,
    \* ---- fgsm_loss frame
    inputs, labels, defense_args, origGrad, orig_loss, adv_loss, combined_loss,
    \* ---- fgsm_attack called on its own
    image, data_grad, epsilon, perturbed_image,
    \* ---- evaluate_model frame
    data_loader, batchNo, model_accuracy, avg_accuracy,
    \* ---- train frame
    epochs, curve, epoch, model, best_model, best_val_accuracy, val_accuracies,
    test_accuracy

taVars == <<test_loader, attack_function, attack_args, idx, correct, adv_examples,
            data, target, dataGrad, init_pred, perturbed_data, final_acc>>
pgdVars == <<pgdData, pgdTarget, pgdArgs, orig_data, adv_data, advGrad, iter,
             pgdRet, pgdResult>>
flVars == <<inputs, labels, defense_args, origGrad, orig_loss, adv_loss,
            combined_loss>>
fgVars == <<image, data_grad, epsilon, perturbed_image>>
evVars == <<data_loader, batchNo, model_accuracy, avg_accuracy>>
trVars == <<epochs, curve, epoch, model, best_model, best_val_accuracy,
            val_accuracies, test_accuracy>>
vars == <<pc, W, paramGradN, error, taVars, pgdVars, flVars, fgVars, evVars, trVars>>

-----------------------------------------------------------------------------
(* Bounds of the model *)

MaxIter == 2          \* largest NUM_ITER passed to pgd_attack
MaxLen == 2           \* longest test_loader passed to test_attack
MaxAcc == 2           \* backward results left summed in the parameters
MaxSamples == 3       \* largest dataset passed to evaluate_model
MaxBatch == 2         \* largest batch size of the data loader
MaxEpochs == 3        \* largest number of epochs passed to train
MaxLong == 6          \* length of the test_loader in the runs that fill the sample list

(* Program constants *)

Unit == 10000         \* 1.0, the upper end of the range clamp
AdvCap == 5           \* adversarial examples kept for visualization
NumClasses == 10      \* classes of the one-hot encoding in evaluate_model

None == "None"           \* a name bound to None
NoTensor == <<>>        \* a tensor slot that holds nothing (.grad is None)
Unbound == <<>>         \* a local name no statement has assigned
NoError == "NoError"

FGSM == "fgsm"
PGD == "pgd"
UNKNOWN == "cw"
AttackFns == {FGSM, PGD, UNKNOWN}

Labels == {0, 1}

-----------------------------------------------------------------------------
(* Tensor arithmetic *)

Sign(v) == IF v > 0 THEN 1 ELSE IF v < 0 THEN -1 ELSE 0

Abs(v) == IF v < 0 THEN -v ELSE v

Clamp(v, lo, hi) == IF v < lo THEN lo ELSE IF v > hi THEN hi ELSE v

TClamp(t, lo, hi) == [i \in DOMAIN t |-> Clamp(t[i], lo, hi)]

TAdd(a, b) == [i \in DOMAIN a |-> a[i] + b[i]]

TSub(a, b) == [i \in DOMAIN a |-> a[i] - b[i]]

RECURSIVE Dot(_, _)
Dot(a, b) == IF a = <<>> THEN 0 ELSE Head(a) * Head(b) + Dot(Tail(a), Tail(b))

RECURSIVE Norm1(_)
Norm1(a) == IF a = <<>> THEN 0 ELSE Abs(Head(a)) + Norm1(Tail(a))

-----------------------------------------------------------------------------
(* The classifier: logits <<-s, s>> with s = w . x + b, a linear binary     *)
(* classifier whose decision boundary is s = 0.                            *)

Score(x) == Dot(W.w, x) + W.b

Forward(x) == <<-Score(x), Score(x)>>

\* output.max(1)[1]: the index of the largest logit, the first one on a tie
Predict(x) == IF Forward(x)[2] > Forward(x)[1] THEN 1 ELSE 0

\* F.nll_loss(output, target) = -output[target]
NllLoss(output, y) == -output[y + 1]

\* criterion(preds, target): the loss of the caller, decreasing in the margin
\* preds[target] - preds[other]
Criterion(preds, y) == preds[(1 - y) + 1] - preds[y + 1]

\* d NllLoss(Forward(x), y) / dx
NllGrad(x, y) == [i \in DOMAIN x |-> IF y = 1 THEN -W.w[i] ELSE W.w[i]]

\* d Criterion(Forward(x), y) / dx
CritGrad(x, y) == [i \in DOMAIN x |-> IF y = 1 THEN -2 * W.w[i] ELSE 2 * W.w[i]]

\* tensor.grad after a backward pass: a fresh tensor takes the gradient, a
\* tensor that already holds one sums the new gradient into it
Accumulate(grad, g) == IF grad = NoTensor THEN g ELSE TAdd(grad, g)

-----------------------------------------------------------------------------
(* denormalize and fgsm_attack *)

mean == <<4914, 4822, 4465>>
std == <<2470, 2430, 2610>>

\* batch * std + mean per channel, rounded down to the fixed-point grid
denormalize(batch) == [c \in DOMAIN batch |-> (batch[c] * std[c]) \div Unit + mean[c]]

fgsm_attack_clamped(img, grad, eps) ==
    [i \in DOMAIN img |-> Clamp(img[i] + eps * Sign(grad[i]), 0, Unit)]

fgsm_attack(img, grad, eps) ==
    [i \in DOMAIN img |-> img[i] + eps * Sign(grad[i])]

-----------------------------------------------------------------------------
(* Inputs *)

Vals == {-4000, 2000, 7000, 12000}
Tensors == {<<a, b>> : a \in Vals, b \in Vals}
Models == { [w |-> <<1, 0>>, b |-> 1000],
            [w |-> <<1, 1>>, b |-> -10000],
            [w |-> <<-1, 1>>, b |-> 0] }
EpsVals == {0, 3000, 6000}
AlphaVals == {0, 3000, 4000}
PgdArgs == [eps : EpsVals, alpha : AlphaVals, num_iter : 0..MaxIter]

-----------------------------------------------------------------------------
(* pgd_attack *)

\* lines 98-99: clamp the deviation to the epsilon ball, then the example to [0,1]
Project(adv, orig, eps) ==
    TClamp(TAdd(orig, TClamp(TSub(adv, orig), -eps, eps)), 0, Unit)

\* lines 72-80
EnterPgd(d, t, args, ret) ==
    /\ pgdData' = d
    /\ pgdTarget' = t
    /\ pgdArgs' = args
    /\ orig_data' = d
    /\ adv_data' = d
    /\ advGrad' = NoTensor
    /\ iter' = 0
    /\ pgdRet' = ret
    /\ pgdResult' = NoTensor
    /\ pc' = "pgd_loop"

PgdCall ==
    /\ pc = "idle"
    /\ \E d \in Tensors, t \in Labels, args \in PgdArgs : EnterPgd(d, t, args, "idle")
    /\ UNCHANGED <<W, paramGradN, error, taVars, flVars, fgVars, evVars, trVars>>

\* lines 86-91: forward pass, loss, model.zero_grad()
PgdForward ==
    /\ pc = "pgd_loop"
    /\ iter < pgdArgs.num_iter
    /\ paramGradN' = 0
    /\ pc' = "pgd_backward"
    /\ UNCHANGED <<W, error, taVars, pgdData, pgdTarget, pgdArgs, orig_data, adv_data,
                   advGrad, iter, pgdRet, pgdResult, flVars, fgVars, evVars, trVars>>

\* lines 92-99: loss.backward(), the sign step, the projection; the projected
\* example is a new tensor, which holds no gradient
PgdStep ==
    /\ pc = "pgd_backward"
    /\ paramGradN' = paramGradN + 1
    /\ LET g == Accumulate(advGrad, CritGrad(adv_data, pgdTarget))
           raw == fgsm_attack(adv_data, g, pgdArgs.alpha)
       IN adv_data' = Project(raw, orig_data, pgdArgs.eps)
    /\ advGrad' = NoTensor
    /\ iter' = iter + 1
    /\ pc' = "pgd_loop"
    /\ UNCHANGED <<W, error, taVars, pgdData, pgdTarget, pgdArgs, orig_data, pgdRet,
                   pgdResult, flVars, fgVars, evVars, trVars>>

\* lines 101-103
PgdResultClamped(adv) == TClamp(adv, 0, Unit)

PgdResult(adv) == adv

PgdReturn ==
    /\ pc = "pgd_loop"
    /\ iter = pgdArgs.num_iter
    /\ pgdResult' = PgdResult(adv_data)
    /\ IF pgdRet = "idle"
       THEN /\ pc' = "pgd_done"
            /\ UNCHANGED perturbed_data
       ELSE /\ pc' = "ta_reclassify"
            /\ perturbed_data' = PgdResult(adv_data)
    /\ UNCHANGED <<W, paramGradN, error, test_loader, attack_function, attack_args, idx,
                   correct, adv_examples, data, target, dataGrad, init_pred, final_acc,
                   pgdData, pgdTarget, pgdArgs, orig_data, adv_data, advGrad, iter,
                   pgdRet, flVars, fgVars, evVars, trVars>>

-----------------------------------------------------------------------------
(* test_attack *)

SeqsUpTo(S, n) == UNION {[1..k -> S] : k \in 0..n}

TestTensors == {<<-4000, 2000>>, <<2000, 2000>>, <<7000, 7000>>, <<12000, 2000>>}
ExamplePool == {[data |-> d, target |-> t] : d \in TestTensors, t \in Labels}
Loaders == SeqsUpTo(ExamplePool, MaxLen)

\* the attack_args a caller passes: FGSM reads EPSILON only
AttackArgs(fn) == IF fn = PGD THEN PgdArgs
                  ELSE [eps : EpsVals, alpha : {0}, num_iter : {0}]

\* lines 106-110
TaCall ==
    /\ pc = "idle"
    /\ \E l \in Loaders, fn \in AttackFns :
         \E args \in AttackArgs(fn) :
            /\ test_loader' = l
            /\ attack_function' = fn
            /\ attack_args' = args
    /\ idx' = 0
    /\ correct' = 0
    /\ adv_examples' = <<>>
    /\ pc' = "ta_loop"
    /\ UNCHANGED <<W, paramGradN, error, data, target, dataGrad, init_pred,
                   perturbed_data, final_acc, pgdVars, flVars, fgVars, evVars, trVars>>

\* lines 111-122: the next example, its clean prediction, the skip of an
\* already misclassified example, else the loss and model.zero_grad()
TaNext ==
    /\ pc = "ta_loop"
    /\ idx < Len(test_loader)
    /\ LET ex == test_loader[idx + 1] IN
         /\ data' = ex.data
         /\ target' = ex.target
         /\ dataGrad' = NoTensor
         /\ init_pred' = Predict(ex.data)
         /\ IF Predict(ex.data) # ex.target
            THEN /\ idx' = idx + 1
                 /\ pc' = "ta_loop"
                 /\ UNCHANGED paramGradN
            ELSE /\ paramGradN' = 0
                 /\ pc' = "ta_attack"
                 /\ UNCHANGED idx
    /\ UNCHANGED <<W, error, test_loader, attack_function, attack_args, correct,
                   adv_examples, perturbed_data, final_acc, pgdVars, flVars, fgVars,
                   evVars, trVars>>

\* lines 124-130: loss.backward(), denormalize, fgsm_attack
TaFgsm ==
    /\ pc = "ta_attack"
    /\ attack_function = FGSM
    /\ paramGradN' = paramGradN + 1
    /\ dataGrad' = Accumulate(dataGrad, NllGrad(data, target))
    /\ LET data_denorm == denormalize(data) IN
         perturbed_data' = fgsm_attack(data_denorm,
                                       Accumulate(dataGrad, NllGrad(data, target)),
                                       attack_args.eps)
    /\ pc' = "ta_reclassify"
    /\ UNCHANGED <<W, error, test_loader, attack_function, attack_args, idx, correct,
                   adv_examples, data, target, init_pred, final_acc, pgdVars, flVars,
                   fgVars, evVars, trVars>>

\* lines 131-134: the call of pgd_attack
TaPgd ==
    /\ pc = "ta_attack"
    /\ attack_function = PGD
    /\ EnterPgd(data, target, attack_args, "test_attack")
    /\ UNCHANGED <<W, paramGradN, error, taVars, flVars, fgVars, evVars, trVars>>

\* lines 135-136: the selector is printed, nothing is assigned
TaUnknown ==
    /\ pc = "ta_attack"
    /\ attack_function \notin {FGSM, PGD}
    /\ pc' = "ta_reclassify"
    /\ UNCHANGED <<W, paramGradN, error, taVars, pgdVars, flVars, fgVars, evVars, trVars>>

\* lines 144-151
SavedOneMore(examples, ip, fp, orig, adv) ==
    IF Len(examples) <= AdvCap
    THEN Append(examples, <<ip, fp, denormalize(orig), denormalize(adv)>>)
    ELSE examples

Saved(examples, ip, fp, orig, adv) ==
    IF Len(examples) < AdvCap
    THEN Append(examples, <<ip, fp, denormalize(orig), denormalize(adv)>>)
    ELSE examples

\* lines 138-151: the perturbed example is classified again; reading a name
\* that no branch assigned raises UnboundLocalError
TaReclassify ==
    /\ pc = "ta_reclassify"
    /\ IF perturbed_data = Unbound
       THEN /\ error' = "UnboundLocalError"
            /\ pc' = "ta_error"
            /\ UNCHANGED <<idx, correct, adv_examples>>
       ELSE /\ LET final_pred == Predict(perturbed_data) IN
                 IF final_pred = target
                 THEN /\ correct' = correct + 1
                      /\ UNCHANGED adv_examples
                 ELSE /\ adv_examples' = Saved(adv_examples, init_pred, final_pred,
                                               data, perturbed_data)
                      /\ UNCHANGED correct
            /\ idx' = idx + 1
            /\ pc' = "ta_loop"
            /\ UNCHANGED error
    /\ UNCHANGED <<W, paramGradN, test_loader, attack_function, attack_args, data,
                   target, dataGrad, init_pred, perturbed_data, final_acc, pgdVars,
                   flVars, fgVars, evVars, trVars>>

\* line 154: correct / float(len(test_loader)), kept as <<numerator, denominator>>
FinalAccOverAttacked(c, loader) ==
    <<c, Cardinality({i \in DOMAIN loader : Predict(loader[i].data) = loader[i].target})>>

FinalAcc(c, loader) == <<c, Len(loader)>>

\* lines 153-156: an empty loader divides by zero
TaFinish ==
    /\ pc = "ta_loop"
    /\ idx = Len(test_loader)
    /\ IF Len(test_loader) = 0
       THEN /\ error' = "ZeroDivisionError"
            /\ pc' = "ta_error"
            /\ UNCHANGED final_acc
       ELSE /\ final_acc' = FinalAcc(correct, test_loader)
            /\ pc' = "ta_done"
            /\ UNCHANGED error
    /\ UNCHANGED <<W, paramGradN, test_loader, attack_function, attack_args, idx,
                   correct, adv_examples, data, target, dataGrad, init_pred,
                   perturbed_data, pgdVars, flVars, fgVars, evVars, trVars>>

-----------------------------------------------------------------------------
(* fgsm_loss *)

MixVals == {0, 5000, Unit}
DefenseArgs == [alpha : MixVals, eps : EpsVals]

\* lines 37-49: the two detached copies, the clean forward pass and its loss
FlCall ==
    /\ pc = "idle"
    /\ paramGradN < MaxAcc
    /\ \E x \in Tensors, y \in Labels, args \in DefenseArgs :
         /\ inputs' = x
         /\ labels' = y
         /\ defense_args' = args
         /\ orig_loss' = Criterion(Forward(x), y)
    /\ origGrad' = NoTensor
    /\ pc' = "fl_backward"
    /\ UNCHANGED <<W, paramGradN, error, taVars, pgdVars, adv_loss, combined_loss,
                   fgVars, evVars, trVars>>

\* line 63
CombinedLossSwapped(alpha, adv, orig) == (alpha * adv + (Unit - alpha) * orig) \div Unit

CombinedLoss(alpha, adv, orig) == ((Unit - alpha) * adv + alpha * orig) \div Unit

\* lines 51-69: orig_loss.backward(retain_graph=True), the FGSM copy, its
\* loss, the mix of the two losses
FlBackward ==
    /\ pc = "fl_backward"
    /\ paramGradN' = paramGradN + 1
    /\ LET g == Accumulate(origGrad, CritGrad(inputs, labels))
           adv_imgs == fgsm_attack(inputs, g, defense_args.eps)
           al == Criterion(Forward(adv_imgs), labels)
       IN /\ origGrad' = g
          /\ adv_loss' = al
          /\ combined_loss' = CombinedLoss(defense_args.alpha, al, orig_loss)
    /\ pc' = "fl_done"
    /\ UNCHANGED <<W, error, taVars, pgdVars, inputs, labels, defense_args, orig_loss,
                   fgVars, evVars, trVars>>

-----------------------------------------------------------------------------
(* fgsm_attack called on its own *)

GradVals == {-3, 0, 2}
Grads == {<<a, b>> : a \in GradVals, b \in GradVals}
StepVals == EpsVals \cup {2500}

\* lines 29-34
FgsmApply ==
    /\ pc = "fg_call"
    /\ perturbed_image' = fgsm_attack(image, data_grad, epsilon)
    /\ pc' = "fg_done"
    /\ UNCHANGED <<W, paramGradN, error, taVars, pgdVars, flVars, image, data_grad,
                   epsilon, evVars, trVars>>

-----------------------------------------------------------------------------
(* accuracy and evaluate_model; a fraction is <<numerator, denominator>> *)

RECURSIVE MaxOf(_)
MaxOf(v) == IF Len(v) = 1 THEN v[1]
            ELSE IF v[1] >= MaxOf(Tail(v)) THEN v[1] ELSE MaxOf(Tail(v))

\* torch.argmax: the first index that holds the largest value
ArgMax(v) == CHOOSE i \in DOMAIN v :
                /\ v[i] = MaxOf(v)
                /\ \A j \in DOMAIN v : v[j] = MaxOf(v) => i <= j

\* torch.eye(10)[labels]
OneHot(label) == [c \in 1..NumClasses |-> IF c = label + 1 THEN 1 ELSE 0]

RECURSIVE CountCorrect(_)
CountCorrect(batch) ==
    IF batch = <<>> THEN 0
    ELSE (IF ArgMax(Head(batch).logits) = ArgMax(OneHot(Head(batch).label)) THEN 1 ELSE 0)
         + CountCorrect(Tail(batch))

\* line 62: the mean over the batch of (argmax(predictions) == argmax(targets))
accuracy(batch) == <<CountCorrect(batch), Len(batch)>>

RatAdd(p, q) == <<p[1] * q[2] + q[1] * p[2], p[2] * q[2]>>

RECURSIVE RatSum(_)
RatSum(fs) == IF fs = <<>> THEN <<0, 1>> ELSE RatAdd(Head(fs), RatSum(Tail(fs)))

\* line 98: torch.mean of the list of batch accuracies (nan for an empty list)
MeanOf(fs) == IF fs = <<>> THEN <<0, 0>>
              ELSE <<RatSum(fs)[1], RatSum(fs)[2] * Len(fs)>>

Peak(k) == [c \in 1..NumClasses |-> IF c = k THEN 5 ELSE 0]
Flat == [c \in 1..NumClasses |-> 0]
SamplePool == {[logits |-> l, label |-> y] : l \in {Peak(1), Peak(2), Flat}, y \in {0, 1}}
Datasets == SeqsUpTo(SamplePool, MaxSamples)

\* the batches a data loader yields: batch_size samples each, the last one
\* holds what is left
Chunks(ds, bs) ==
    [k \in 1..((Len(ds) + bs - 1) \div bs) |->
        SubSeq(ds, (k - 1) * bs + 1, IF k * bs < Len(ds) THEN k * bs ELSE Len(ds))]

\* lines 93-96
EvBatch ==
    /\ pc = "ev_loop"
    /\ batchNo < Len(data_loader)
    /\ model_accuracy' = Append(model_accuracy, accuracy(data_loader[batchNo + 1]))
    /\ batchNo' = batchNo + 1
    /\ UNCHANGED <<pc, W, paramGradN, error, taVars, pgdVars, flVars, fgVars,
                   data_loader, avg_accuracy, trVars>>

\* lines 98-103
EvFinish ==
    /\ pc = "ev_loop"
    /\ batchNo = Len(data_loader)
    /\ avg_accuracy' = MeanOf(model_accuracy)
    /\ pc' = "ev_done"
    /\ UNCHANGED <<W, paramGradN, error, taVars, pgdVars, flVars, fgVars, data_loader,
                   batchNo, model_accuracy, trVars>>

-----------------------------------------------------------------------------
(* train: a model is the number of epochs it was trained for, <<e>>; the    *)
(* seeds are fixed, so the accuracies evaluate_model returns for the model *)
(* of each epoch are determined by the arguments of the call: curve[e].    *)

NoModel == <<>>          \* best_model = None

ValAccs == {0, 4000, 7000}
TestAccs == {3000, 6000}
Curves == UNION {[1..n -> [val : ValAccs, test : TestAccs]] : n \in 0..MaxEpochs}

NoTrain ==
    /\ epochs = 0 /\ curve = <<>> /\ epoch = 0 /\ model = NoModel
    /\ best_model = NoModel /\ best_val_accuracy = 0 /\ val_accuracies = <<>>
    /\ test_accuracy = None

\* line 203
IsBestStrict(curr, best) == curr > best

IsBest(curr, best) == curr >= best

\* lines 178-205: one epoch of training, the validation of the model, the
\* update of the best model
TrEpoch ==
    /\ pc = "tr_loop"
    /\ epoch < epochs
    /\ LET trained == <<epoch + 1>>
           curr_val_accuracies == curve[epoch + 1].val
       IN /\ model' = trained
          /\ val_accuracies' = Append(val_accuracies, curr_val_accuracies)
          /\ IF IsBest(curr_val_accuracies, best_val_accuracy)
             THEN /\ best_val_accuracy' = curr_val_accuracies
                  /\ best_model' = trained
             ELSE UNCHANGED <<best_val_accuracy, best_model>>
    /\ epoch' = epoch + 1
    /\ UNCHANGED <<pc, W, paramGradN, error, taVars, pgdVars, flVars, fgVars, evVars,
                   epochs, curve, test_accuracy>>

\* lines 207-221: the best model is evaluated on the test set; None has no eval()
TrTest ==
    /\ pc = "tr_loop"
    /\ epoch = epochs
    /\ IF best_model = NoModel
       THEN /\ error' = "AttributeError"
            /\ pc' = "tr_error"
            /\ UNCHANGED test_accuracy
       ELSE /\ test_accuracy' = curve[best_model[1]].test
            /\ pc' = "tr_done"
            /\ UNCHANGED error
    /\ UNCHANGED <<W, paramGradN, taVars, pgdVars, flVars, fgVars, evVars, epochs,
                   curve, epoch, model, best_model, best_val_accuracy, val_accuracies>>

-----------------------------------------------------------------------------

NoFrames ==
    /\ error = NoError
    /\ test_loader = <<>> /\ attack_function = None /\ attack_args = None
    /\ idx = 0 /\ correct = 0 /\ adv_examples = <<>> /\ data = NoTensor
    /\ target = None /\ dataGrad = NoTensor /\ init_pred = None
    /\ perturbed_data = Unbound /\ final_acc = NoTensor
    /\ pgdData = NoTensor /\ pgdTarget = None /\ pgdArgs = None /\ orig_data = NoTensor
    /\ adv_data = NoTensor /\ advGrad = NoTensor /\ iter = 0 /\ pgdRet = None
    /\ pgdResult = NoTensor
    /\ inputs = NoTensor /\ labels = None /\ defense_args = None /\ origGrad = NoTensor
    /\ orig_loss = None /\ adv_loss = None /\ combined_loss = None

ClearFrames ==
    /\ error' = NoError
    /\ test_loader' = <<>> /\ attack_function' = None /\ attack_args' = None
    /\ idx' = 0 /\ correct' = 0 /\ adv_examples' = <<>> /\ data' = NoTensor
    /\ target' = None /\ dataGrad' = NoTensor /\ init_pred' = None
    /\ perturbed_data' = Unbound /\ final_acc' = NoTensor
    /\ pgdData' = NoTensor /\ pgdTarget' = None /\ pgdArgs' = None /\ orig_data' = NoTensor
    /\ adv_data' = NoTensor /\ advGrad' = NoTensor /\ iter' = 0 /\ pgdRet' = None
    /\ pgdResult' = NoTensor
    /\ inputs' = NoTensor /\ labels' = None /\ defense_args' = None /\ origGrad' = NoTensor
    /\ orig_loss' = None /\ adv_loss' = None /\ combined_loss' = None

NoFgsm == image = NoTensor /\ data_grad = NoTensor /\ epsilon = None /\ perturbed_image = NoTensor

NoEval == data_loader = <<>> /\ batchNo = 0 /\ model_accuracy = <<>> /\ avg_accuracy = NoTensor

\* the call returns to its caller: its locals go out of scope, the gradients
\* summed in the parameters stay
Return ==
    /\ pc \in {"pgd_done", "ta_done", "ta_error", "fl_done"}
    /\ pc' = "idle"
    /\ ClearFrames
    /\ UNCHANGED <<W, paramGradN, fgVars, evVars, trVars>>

Init ==
    /\ pc = "idle"
    /\ W \in Models
    /\ paramGradN = 0
    /\ NoFrames /\ NoFgsm /\ NoEval /\ NoTrain

Next ==
    \/ PgdCall \/ PgdForward \/ PgdStep \/ PgdReturn
    \/ TaCall \/ TaNext \/ TaFgsm \/ TaPgd \/ TaUnknown \/ TaReclassify \/ TaFinish
    \/ FlCall \/ FlBackward
    \/ Return

Spec == Init /\ [][Next]_vars

\* fgsm_attack applied to every image, gradient and step size of the pools
InitFgsm ==
    /\ pc = "fg_call"
    /\ W \in Models
    /\ paramGradN = 0
    /\ NoFrames /\ NoEval /\ NoTrain
    /\ image \in Tensors
    /\ data_grad \in Grads
    /\ epsilon \in StepVals
    /\ perturbed_image = NoTensor

NextFgsm == FgsmApply

SpecFgsm == InitFgsm /\ [][NextFgsm]_vars

\* evaluate_model on every dataset and batch size of the pools
InitEval ==
    /\ pc = "ev_loop"
    /\ W \in Models
    /\ paramGradN = 0
    /\ NoFrames /\ NoFgsm /\ NoTrain
    /\ \E ds \in Datasets, bs \in 1..MaxBatch : data_loader = Chunks(ds, bs)
    /\ batchNo = 0
    /\ model_accuracy = <<>>
    /\ avg_accuracy = NoTensor

NextEval == EvBatch \/ EvFinish

SpecEval == InitEval /\ [][NextEval]_vars

\* test_attack on loaders long enough to fill the list of saved examples
LongPool == { [data |-> <<7000, 7000>>, target |-> 1],
              [data |-> <<7000, 2000>>, target |-> 0],
              [data |-> <<12000, 7000>>, target |-> 1] }
LongLoaders == [1..MaxLong -> LongPool]
LongCalls ==
    {[fn |-> FGSM, args |-> a] : a \in [eps : {3000}, alpha : {0}, num_iter : {0}]}
    \cup {[fn |-> PGD, args |-> a] : a \in [eps : {6000}, alpha : {3000}, num_iter : {1}]}

InitCap ==
    /\ pc = "ta_loop"
    /\ W \in Models
    /\ paramGradN = 0
    /\ NoFgsm /\ NoEval /\ NoTrain
    /\ error = NoError
    /\ test_loader \in LongLoaders
    /\ \E c \in LongCalls : attack_function = c.fn /\ attack_args = c.args
    /\ idx = 0 /\ correct = 0 /\ adv_examples = <<>> /\ data = NoTensor
    /\ target = None /\ dataGrad = NoTensor /\ init_pred = None
    /\ perturbed_data = Unbound /\ final_acc = NoTensor
    /\ pgdData = NoTensor /\ pgdTarget = None /\ pgdArgs = None /\ orig_data = NoTensor
    /\ adv_data = NoTensor /\ advGrad = NoTensor /\ iter = 0 /\ pgdRet = None
    /\ pgdResult = NoTensor
    /\ inputs = NoTensor /\ labels = None /\ defense_args = None /\ origGrad = NoTensor
    /\ orig_loss = None /\ adv_loss = None /\ combined_loss = None

NextCap ==
    \/ TaNext \/ TaFgsm \/ TaPgd \/ PgdForward \/ PgdStep \/ PgdReturn
    \/ TaReclassify \/ TaFinish

SpecCap == InitCap /\ [][NextCap]_vars

\* train for every number of epochs and every accuracy curve of the pools
InitTrain ==
    /\ pc = "tr_loop"
    /\ W \in Models
    /\ paramGradN = 0
    /\ NoFrames /\ NoFgsm /\ NoEval
    /\ curve \in Curves
    /\ epochs = Len(curve)
    /\ epoch = 0
    /\ model = <<0>>
    /\ best_model = NoModel
    /\ best_val_accuracy = 0
    /\ val_accuracies = <<>>
    /\ test_accuracy = None

NextTrain == TrEpoch \/ TrTest

SpecTrain == InitTrain /\ [][NextTrain]_vars

-----------------------------------------------------------------------------
(* Properties *)

InBall(adv, orig, eps) == \A i \in DOMAIN adv : Abs(adv[i] - orig[i]) <= eps

InRange(t) == \A i \in DOMAIN t : 0 <= t[i] /\ t[i] <= Unit

\* the examples of a loader that test_attack does not skip
AttackedCount(loader) ==
    Cardinality({i \in DOMAIN loader : Predict(loader[i].data) = loader[i].target})

\* C1: for every input, also one outside [0,1], the adversarial example of
\* pgd_attack stays within epsilon of the original input at every coordinate,
\* after the projection of every iteration and when it is returned.
C1_EpsilonBall ==
    /\ pc \in {"pgd_loop", "pgd_backward"} => InBall(adv_data, pgdData, pgdArgs.eps)
    /\ pc = "pgd_done" => InBall(pgdResult, pgdData, pgdArgs.eps)
    /\ (pc = "ta_reclassify" /\ attack_function = PGD)
          => InBall(perturbed_data, data, attack_args.eps)

\* C2 (as stated): the accuracy test_attack returns is robust_count over the
\* number of examples that were attacked, the skipped ones left out of the
\* denominator.
C2_AccuracyOverAttacked ==
    pc = "ta_done" =>
        final_acc[1] * AttackedCount(test_loader) = correct * final_acc[2]

\* C2 (amended): a skipped example is left out of the numerator only; the
\* accuracy test_attack returns is robust_count over the number of all
\* examples of the loader.
C2_AccuracyOverAll ==
    pc = "ta_done" =>
        /\ final_acc = <<correct, Len(test_loader)>>
        /\ correct <= AttackedCount(test_loader)

C2_Witness ==
    /\ pc = "ta_done"
    /\ AttackedCount(test_loader) < Len(test_loader)
    /\ correct > 0

\* C3: with a selector that is neither FGSM nor PGD the example is skipped:
\* the robust counter and the sample list stay as they are and the run does
\* not end in an error raised by the unassigned perturbed example.
C3_UnknownSelectorSkipped ==
    (pc # "idle" /\ attack_function \notin {None, FGSM, PGD}) =>
        /\ correct = 0
        /\ adv_examples = <<>>
        /\ error # "UnboundLocalError"

\* C4: at every backward pass of pgd_attack, of the FGSM branch of
\* test_attack and of fgsm_loss, the gradients of the parameters are cleared
\* and the differentiated tensor holds no gradient.
C4_GradientsCleared ==
    /\ pc = "pgd_backward" => paramGradN = 0 /\ advGrad = NoTensor
    /\ (pc = "ta_attack" /\ attack_function = FGSM)
          => paramGradN = 0 /\ dataGrad = NoTensor
    /\ pc = "fl_backward" => paramGradN = 0 /\ origGrad = NoTensor

\* C5: with num_iter = 0 pgd_attack returns its input unchanged, for any
\* input, epsilon and alpha, and runs no iteration.
C5_ZeroIterations ==
    /\ (pc = "pgd_done" /\ pgdArgs.num_iter = 0)
          => pgdResult = pgdData /\ iter = 0
    /\ (pc = "ta_reclassify" /\ attack_function = PGD /\ attack_args.num_iter = 0)
          => perturbed_data = data /\ iter = 0

C5_Witness ==
    /\ pc = "pgd_done"
    /\ pgdArgs.num_iter = 0
    /\ pgdArgs.eps > 0
    /\ pgdArgs.alpha > 0
    /\ ~InRange(pgdData)

\* C6: in the FGSM path of test_attack the example that is classified again
\* is the clean example, as it was fed to the classifier, plus
\* epsilon * sign(gradient).
C6_FgsmOnClassifiedInput ==
    (pc = "ta_reclassify" /\ attack_function = FGSM)
        => perturbed_data = fgsm_attack(data, dataGrad, attack_args.eps)

\* C8: a single correctly classified example at L-infinity distance d from
\* the boundary of the linear classifier, attacked with PGD: with epsilon > d
\* and num_iter * alpha > d the attack succeeds and robust_count stays 0; with
\* epsilon < d it fails and robust_count becomes 1.  (d = |s| / |w|_1.)
C8_BoundaryCrossing ==
    (/\ pc = "ta_done"
     /\ attack_function = PGD
     /\ Len(test_loader) = 1
     /\ AttackedCount(test_loader) = 1
     /\ Norm1(W.w) > 0)
    => LET s == Abs(Score(test_loader[1].data))
           n == Norm1(W.w)
       IN /\ (attack_args.eps * n > s /\ attack_args.num_iter * attack_args.alpha * n > s)
                => correct = 0
          /\ attack_args.eps * n < s => correct = 1

\* C10: the loss fgsm_loss returns is (1 - alpha) * adversarial loss +
\* alpha * clean loss: the clean loss for alpha = 1, for alpha = 0 the loss on
\* the FGSM copy of the inputs with step size epsilon.
C10_MixedLoss ==
    pc = "fl_done" =>
        LET clean == Criterion(Forward(inputs), labels)
            adv == Criterion(Forward(fgsm_attack(inputs, CritGrad(inputs, labels),
                                                 defense_args.eps)), labels)
        IN /\ defense_args.alpha = Unit => combined_loss = clean
           /\ defense_args.alpha = 0 => combined_loss = adv
           /\ combined_loss
                = ((Unit - defense_args.alpha) * adv + defense_args.alpha * clean) \div Unit

C10_Witness ==
    /\ pc = "fl_done"
    /\ defense_args.alpha = 0
    /\ adv_loss # orig_loss
    /\ combined_loss = adv_loss

\* C7: evaluate_model returns the number of correctly predicted samples over
\* the number of all samples, however the samples are split into batches.
C7_AccuracyOfDataset ==
    (pc = "ev_done" /\ data_loader # <<>>) =>
        LET hits == RatSum([k \in DOMAIN data_loader |->
                              <<CountCorrect(data_loader[k]), 1>>])[1]
            total == RatSum([k \in DOMAIN data_loader |->
                              <<Len(data_loader[k]), 1>>])[1]
        IN avg_accuracy[1] * total = hits * avg_accuracy[2]

RECURSIVE PgdIterate(_, _, _, _, _)
PgdIterate(adv, orig, t, args, k) ==
    IF k = 0 THEN adv
    ELSE PgdIterate(Project(fgsm_attack(adv, CritGrad(adv, t), args.alpha), orig, args.eps),
                    orig, t, args, k - 1)

Attacked(ex) ==
    IF attack_function = FGSM
    THEN fgsm_attack(denormalize(ex.data), NllGrad(ex.data, ex.target), attack_args.eps)
    ELSE PgdIterate(ex.data, ex.data, ex.target, attack_args, attack_args.num_iter)

IsAttacked(ex) == Predict(ex.data) = ex.target

\* the failures (what test_attack saves for each of them, in dataset order)
\* and the number of robust examples among the first k examples of the loader
RECURSIVE OutcomesUpTo(_, _)
OutcomesUpTo(loader, k) ==
    IF k = 0 THEN [failures |-> <<>>, robust |-> 0]
    ELSE LET prev == OutcomesUpTo(loader, k - 1)
             ex == loader[k]
             adv == Attacked(ex)
             final_pred == Predict(adv)
         IN IF ~IsAttacked(ex) THEN prev
            ELSE IF final_pred = ex.target
                 THEN [prev EXCEPT !.robust = @ + 1]
                 ELSE [prev EXCEPT !.failures =
                          Append(@, <<Predict(ex.data), final_pred,
                                      denormalize(ex.data), denormalize(adv)>>)]

Min(a, b) == IF a < b THEN a ELSE b

\* C11: at every point of a pass of test_attack the list of saved examples
\* holds at most 5 entries: the first min(5, failures so far) examples whose
\* prediction after the attack differs from the label, in dataset order; an
\* example that is still classified correctly after the attack counts as
\* robust and is not saved.
C11_SavedExamples ==
    (pc \in {"ta_loop", "ta_attack", "pgd_loop", "pgd_backward", "ta_reclassify", "ta_done"}
     /\ attack_function \in {FGSM, PGD})
    => LET seen == OutcomesUpTo(test_loader, idx) IN
         /\ Len(adv_examples) <= AdvCap
         /\ adv_examples = SubSeq(seen.failures, 1, Min(AdvCap, Len(seen.failures)))
         /\ correct = seen.robust

C11_Witness ==
    /\ pc = "ta_done"
    /\ Len(adv_examples) = AdvCap
    /\ Len(OutcomesUpTo(test_loader, Len(test_loader)).failures) > AdvCap
    /\ \E i, j \in DOMAIN adv_examples : adv_examples[i] # adv_examples[j]

\* the latest epoch among the first n whose validation accuracy is the largest
LatestBest(n) ==
    CHOOSE k \in 1..n :
        /\ \A i \in 1..n : curve[i].val <= curve[k].val
        /\ \A i \in (k + 1)..n : curve[i].val < curve[k].val

TrainState ==
    pc \in {"tr_loop", "tr_done"} =>
        /\ Len(val_accuracies) = epoch
        /\ \A i \in 1..epoch : val_accuracies[i] = curve[i].val
        /\ epoch >= 1 =>
              /\ best_model = <<LatestBest(epoch)>>
              /\ best_val_accuracy = curve[LatestBest(epoch)].val
        /\ pc = "tr_done" =>
              /\ epoch = epochs
              /\ test_accuracy = curve[LatestBest(epochs)].test

\* C12: for epochs >= 1 train returns the snapshot of the latest epoch whose
\* validation accuracy is the largest of all epochs, the tracked best
\* validation accuracy never decreases, val_accuracies holds one entry per
\* epoch in epoch order, and the test accuracy is that of the best snapshot,
\* not of the model of the last epoch.
C12_BestSnapshot ==
    /\ []TrainState
    /\ [][best_val_accuracy' >= best_val_accuracy]_vars

C12_Witness ==
    /\ pc = "tr_done"
    /\ epochs >= 2
    /\ best_model # model
    /\ \E i \in 1..epochs : <<i>> # best_model /\ curve[i].val = best_val_accuracy
    /\ test_accuracy # curve[epochs].test

====
